---- MODULE Spec2Model ----
(***************************************************************************)
(* Output render scheduling of wlc (src/src/compositor/output.c): the      *)
(* per-output repaint scheduler, the (surface, context, render) triple,    *)
(* surface migration between outputs, spaces and the pixel readback task.  *)
(*                                                                         *)
(* Every handler of output.c is one action.  Handlers that call other      *)
(* handlers (schedule_repaint, surface_destroy, set_surface) are written   *)
(* as operators on the output record so that the caller's action contains  *)
(* the callee's effect.                                                    *)
(***************************************************************************)
EXTENDS Integers, Sequences, FiniteSets, TLC

(* ---- bounds ---- *)
MaxBurst == 3
ImsScale == 10

(* ---- program constants ---- *)
ImsInit == 41
ImsFloor == 1
ImsCeil == 41

MaxCallbacks == 2
MaxSpaces == 3
MaxTerminate == 2
MaxExtLen == 4
MaxModes == 3
ActiveFrames == 100
MaxNameLen == 2

NULL == 0
Outputs == {1, 2}
Views == {1, 2}
PixelCallbacks == {1, 2}
BackendSurfaces == {1, 2, 3}
Surfaces == {1, 2}
Callbacks == 1..MaxCallbacks

(* compositor->output, the output that carries the pointer (output.c:185) *)
CompositorOutput == 1

(* output->mode before a mode is elected, output.c:81: the all-ones value  *)
(* (uint32_t)-1, which is past the end of every mode list.                 *)
UINT_MAX == 0 - 1

(* struct wlc_output_mode: the flags and the size; the mode at index m is  *)
(* m + 1 wide and high, so that the modes of a list differ in size.        *)
ModeFlags == SUBSET {"current", "preferred"}
RECURSIVE ModeListsOf(_)
ModeListsOf(n) ==
  IF n = 0 THEN {<< >>}
  ELSE {Append(l, [flags |-> f, width |-> n, height |-> n]) :
          l \in ModeListsOf(n - 1), f \in ModeFlags}
ModeLists == UNION {ModeListsOf(n) : n \in 1..MaxModes}
SingleMode == << [flags |-> {"current", "preferred"}, width |-> 1, height |-> 1] >>

(* Extension strings and extension names, over a two-letter alphabet and   *)
(* the space; a string is the sequence of its characters before the NUL.   *)
Letters == {"a", "b"}
RECURSIVE StringsOver(_, _)
StringsOver(chars, n) ==
  IF n = 0 THEN {<< >>}
  ELSE LET shorter == StringsOver(chars, n - 1)
       IN shorter \cup {Append(t, c) : t \in shorter, c \in chars}
ExtStrings == StringsOver(Letters \cup {" "}, MaxExtLen)
ExtNames == StringsOver(Letters, MaxNameLen) \ {<< >>}

(* Memory: a struct wlc_space lives at an address of SpaceAddrs; the list  *)
(* head output->spaces of output o is the node ListHead(o).                *)
(* wlc_space_from_link of a list head is a pointer into the output, which  *)
(* is no space: it is kept as the (negative) node.                         *)
SpaceAddrs == 1..MaxSpaces
ListHead(o) == 0 - o
Nodes == SpaceAddrs \cup {ListHead(o) : o \in Outputs}

(* The first space of output o (output.c:412) and the views on it; views   *)
(* are put on a space by view.c.                                           *)
InitialSpace(o) == o
SpaceViews(sp) == IF sp = InitialSpace(1) THEN << 1, 2 >> ELSE << >>

(* The monotonic clock as the timespecs the backend hands to finish_frame. *)
TimeSamples ==
  << [tv_sec |-> 0, tv_nsec |-> 0],
     [tv_sec |-> 0, tv_nsec |-> 16000000],
     [tv_sec |-> 0, tv_nsec |-> 17999999],
     [tv_sec |-> 1, tv_nsec |-> 2000000] >>

VARIABLES
  output,        \* [Outputs -> struct wlc_output]
  active,        \* wlc_get_active()
  enable_bg,     \* compositor->options.enable_bg
  clock,         \* index into TimeSamples: the current CLOCK_MONOTONIC reading
  views,         \* [Views -> struct wlc_view with its surface's commit state]
  cb,            \* [Callbacks -> frame callback resource and what was sent on it]
  hist,          \* [Outputs -> history of the last handlers run on the output]
  surface_output,  \* [Surfaces -> surface->output, NULL when detached]
  render_held,     \* [Outputs -> the surfaces the output's renderer holds resources of]
  pointer_surface, \* compositor->seat->pointer->surface
  link,            \* [Nodes -> struct wl_list]: the space lists, as memory
  space_alive,     \* the addresses that hold an allocated struct wlc_space
  space_output,    \* [SpaceAddrs -> space->output]
  information,     \* [Outputs -> output->information.modes]
  mode,            \* [Outputs -> output->mode]
  resolution,      \* [Outputs -> output->resolution]
  bound,           \* [Outputs -> how the last wl_output_bind ended]
  decay,           \* [Outputs -> the interval a run of active frames started from, and its length]
  egl,             \* the static struct egl of context/egl.c
  egl_calls,       \* the calls the last handler of egl.c made, and its result
  egl_live,        \* what the backend, the loader and the EGL library hold
  lookup,          \* the last has_extension: the name asked for and the result
  egl_fail         \* the step that failed in the last wlc_egl_init, 0 after another handler

migr == << surface_output, render_held, pointer_surface >>
spc == << link, space_alive, space_output >>
eglv == << egl, egl_calls, egl_live, lookup, egl_fail >>
modev == << information, mode, resolution, bound >>
vars == << output, active, enable_bg, clock, views, cb, hist, migr, spc, eglv, modev, decay >>

(* tv_sec * 1000 + tv_nsec / 1000000, output.c:227 *)
FrameTimeMs(ts) == ts.tv_sec * 1000 + ts.tv_nsec \div 1000000

Min(a, b) == IF a < b THEN a ELSE b
Max(a, b) == IF a > b THEN a ELSE b

Count(seq, tag) == Cardinality({i \in DOMAIN seq : seq[i][1] = tag})

(* First index of a call with the given tag in a call log, 0 when absent. *)
IndexOf(seq, tag) ==
  IF \E i \in DOMAIN seq : seq[i][1] = tag
  THEN CHOOSE i \in DOMAIN seq : seq[i][1] = tag /\ \A j \in 1..(i - 1) : seq[j][1] # tag
  ELSE 0

(***************************************************************************)
(* struct wlc_output.  ims is held in 1/ImsScale milliseconds.  calls is   *)
(* the log of the calls the last handler that ran on the output made to    *)
(* its collaborators (event loop, renderer, signals, clients); every       *)
(* handler starts with an empty log.                                       *)
(***************************************************************************)
Begin(out) == [out EXCEPT !.calls = <<>>]

Call(out, c) == [out EXCEPT !.calls = Append(@, c)]

(* wl_event_source_timer_update(output->idle_timer, ms): one-shot, a new   *)
(* arming replaces the previous one.                                       *)
timer_update(out, ms) == Call([out EXCEPT !.idle_timer = TRUE], <<"timer_update", ms>>)

(* output.c:300-316 *)
schedule_repaint_marks_only(out) ==
  [out EXCEPT !.activity = TRUE, !.scheduled = TRUE]

schedule_repaint_always_arms(out) ==
  timer_update([out EXCEPT !.activity = TRUE, !.scheduled = TRUE], 1)

wlc_output_schedule_repaint(out) ==
  IF out.scheduled
  THEN [out EXCEPT !.activity = TRUE]
  ELSE timer_update([out EXCEPT !.activity = TRUE, !.scheduled = TRUE], 1)

(* output.c:103-107 *)
should_render_ignores_pending(out) ==
  active /\ out.context # NULL /\ out.render # NULL

should_render(out) ==
  active /\ ~out.pending /\ out.context # NULL /\ out.render # NULL

(* fmin(fmax(ims * (activity ? 0.9 : 1.1), 1), 41), output.c:238 *)
next_ims_factors_swapped(ims, activity) ==
  Min(Max(IF activity THEN (ims * 11) \div 10 ELSE (ims * 9) \div 10,
          ImsFloor * ImsScale),
      ImsCeil * ImsScale)

next_ims_unclamped(ims, activity) ==
  IF activity THEN (ims * 9) \div 10 ELSE (ims * 11) \div 10

next_ims(ims, activity) ==
  Min(Max(IF activity THEN (ims * 9) \div 10 ELSE (ims * 11) \div 10,
          ImsFloor * ImsScale),
      ImsCeil * ImsScale)

(* output.c:219-254; vis is the value is_visible(output) returns when it   *)
(* is evaluated (it depends on the views' committed geometry).             *)
finish_frame_keeps_pending(out, ts, vis) ==
  LET o1 == [out EXCEPT !.frame_time = FrameTimeMs(ts)]
      o2 == IF enable_bg /\ o1.background_visible /\ ~vis
            THEN [o1 EXCEPT !.background_visible = FALSE] ELSE o1
      o3 == IF (o2.background_visible \/ o2.activity) /\ ~o2.terminating
            THEN LET i == next_ims(o2.ims, o2.activity)
                 IN [timer_update([o2 EXCEPT !.ims = i], i \div ImsScale)
                       EXCEPT !.scheduled = TRUE, !.activity = FALSE]
            ELSE [o2 EXCEPT !.scheduled = FALSE]
  IN IF o3.terminating
     THEN [Call(o3, <<"emit_remove">>) EXCEPT !.terminating = FALSE]
     ELSE o3

finish_frame_rearms_terminating(out, ts, vis) ==
  LET o1 == [out EXCEPT !.pending = FALSE, !.frame_time = FrameTimeMs(ts)]
      o2 == IF enable_bg /\ o1.background_visible /\ ~vis
            THEN [o1 EXCEPT !.background_visible = FALSE] ELSE o1
      o3 == IF o2.background_visible \/ o2.activity
            THEN LET i == next_ims(o2.ims, o2.activity)
                 IN [timer_update([o2 EXCEPT !.ims = i], i \div ImsScale)
                       EXCEPT !.scheduled = TRUE, !.activity = FALSE]
            ELSE [o2 EXCEPT !.scheduled = FALSE]
  IN IF o3.terminating
     THEN [Call(o3, <<"emit_remove">>) EXCEPT !.terminating = FALSE]
     ELSE o3

finish_frame_ignores_activity(out, ts, vis) ==
  LET o1 == [out EXCEPT !.pending = FALSE, !.frame_time = FrameTimeMs(ts)]
      o2 == IF enable_bg /\ o1.background_visible /\ ~vis
            THEN [o1 EXCEPT !.background_visible = FALSE] ELSE o1
      o3 == IF o2.background_visible /\ ~o2.terminating
            THEN LET i == next_ims(o2.ims, o2.activity)
                 IN [timer_update([o2 EXCEPT !.ims = i], i \div ImsScale)
                       EXCEPT !.scheduled = TRUE, !.activity = FALSE]
            ELSE [o2 EXCEPT !.scheduled = FALSE]
  IN IF o3.terminating
     THEN [Call(o3, <<"emit_remove">>) EXCEPT !.terminating = FALSE]
     ELSE o3

finish_frame_keeps_terminating(out, ts, vis) ==
  LET o1 == [out EXCEPT !.pending = FALSE, !.frame_time = FrameTimeMs(ts)]
      o2 == IF enable_bg /\ o1.background_visible /\ ~vis
            THEN [o1 EXCEPT !.background_visible = FALSE] ELSE o1
      o3 == IF (o2.background_visible \/ o2.activity) /\ ~o2.terminating
            THEN LET i == next_ims(o2.ims, o2.activity)
                 IN [timer_update([o2 EXCEPT !.ims = i], i \div ImsScale)
                       EXCEPT !.scheduled = TRUE, !.activity = FALSE]
            ELSE [o2 EXCEPT !.scheduled = FALSE]
  IN IF o3.terminating THEN Call(o3, <<"emit_remove">>) ELSE o3

wlc_output_finish_frame(out, ts, vis) ==
  LET o1 == [out EXCEPT !.pending = FALSE, !.frame_time = FrameTimeMs(ts)]
      o2 == IF enable_bg /\ o1.background_visible /\ ~vis
            THEN [o1 EXCEPT !.background_visible = FALSE] ELSE o1
      o3 == IF (o2.background_visible \/ o2.activity) /\ ~o2.terminating
            THEN LET i == next_ims(o2.ims, o2.activity)
                 IN [timer_update([o2 EXCEPT !.ims = i], i \div ImsScale)
                       EXCEPT !.scheduled = TRUE, !.activity = FALSE]
            ELSE [o2 EXCEPT !.scheduled = FALSE]
  IN IF o3.terminating
     THEN [Call(o3, <<"emit_remove">>) EXCEPT !.terminating = FALSE]
     ELSE o3

(***************************************************************************)
(* context/egl.c.  The strings of has_extension, egl.c:135-154.            *)
(***************************************************************************)
(* strcspn(s, " "): the length of the run of non-space characters at s. *)
RECURSIVE strcspn_space(_)
strcspn_space(str) ==
  IF str = << >> \/ Head(str) = " " THEN 0 ELSE 1 + strcspn_space(Tail(str))

(* strncmp(s, extension, len) == 0 with len = strlen(extension). *)
strncmp_equal(str, extension, len) ==
  Len(str) >= len /\ SubSeq(str, 1, len) = SubSeq(extension, 1, len)

(* The while loop of has_extension over the rest s of the string. *)
RECURSIVE scan_extensions(_, _)
scan_extensions(str, extension) ==
  LET pos == strcspn_space(str)
      next == pos + (IF pos < Len(str) THEN 1 ELSE 0)
  IN IF pos = 0 THEN FALSE
     ELSE IF strncmp_equal(str, extension, Len(extension)) THEN TRUE
     ELSE scan_extensions(SubSeq(str, next + 1, Len(str)), extension)

(* egl.extensions is << >> for a null pointer and << s >> for the string s. *)
has_extension(e, extension) ==
  IF e.extensions = << >> THEN FALSE
  ELSE scan_extensions(e.extensions[1], extension)

(* memset(&egl, 0, sizeof(egl)) *)
EglZero ==
  [backend |-> NULL, handle |-> NULL, display |-> NULL, context |-> NULL,
   surface |-> NULL, config |-> NULL, extensions |-> << >>, has_current |-> FALSE]

(* No has_extension has been asked yet. *)
NoLookup == [name |-> << >>, found |-> FALSE]

(* terminate, egl.c:165-188, on r = [egl, calls]. *)
EglCall(r, c) == [r EXCEPT !.calls = Append(@, c)]

egl_terminate_keeps_state(r) ==
  LET e == r.egl
      r1 == IF e.display # NULL /\ e.has_current THEN EglCall(r, "eglMakeCurrent_none") ELSE r
      r2 == IF e.display # NULL /\ e.surface # NULL THEN EglCall(r1, "eglDestroySurface") ELSE r1
      r3 == IF e.display # NULL /\ e.context # NULL THEN EglCall(r2, "eglDestroyContext") ELSE r2
      r4 == IF e.display # NULL THEN EglCall(r3, "eglTerminate") ELSE r3
      r5 == IF e.handle # NULL THEN EglCall(r4, "dlclose") ELSE r4
  IN IF e.backend # NULL THEN EglCall(r5, "backend_terminate") ELSE r5

egl_terminate(r) ==
  LET e == r.egl
      r1 == IF e.display # NULL /\ e.has_current THEN EglCall(r, "eglMakeCurrent_none") ELSE r
      r2 == IF e.display # NULL /\ e.surface # NULL THEN EglCall(r1, "eglDestroySurface") ELSE r1
      r3 == IF e.display # NULL /\ e.context # NULL THEN EglCall(r2, "eglDestroyContext") ELSE r2
      r4 == IF e.display # NULL THEN EglCall(r3, "eglTerminate") ELSE r3
      r5 == IF e.handle # NULL THEN EglCall(r4, "dlclose") ELSE r4
      r6 == IF e.backend # NULL THEN EglCall(r5, "backend_terminate") ELSE r5
  IN [r6 EXCEPT !.egl = EglZero]

(* The bring-up steps of wlc_egl_init in order, egl.c:193-237: the call,   *)
(* and the field of egl that holds its result ("" when it is not stored).  *)
EglSteps ==
  << [call |-> "wlc_backend_init", field |-> "backend"],
     [call |-> "dlopen", field |-> "handle"],
     [call |-> "dlsym", field |-> ""],
     [call |-> "eglGetDisplay", field |-> "display"],
     [call |-> "eglInitialize", field |-> ""],
     [call |-> "eglBindAPI", field |-> ""],
     [call |-> "eglChooseConfig", field |-> "config"],
     [call |-> "eglCreateContext", field |-> "context"],
     [call |-> "eglCreateWindowSurface", field |-> "surface"],
     [call |-> "eglMakeCurrent", field |-> "has_current"] >>

NoFailure == Len(EglSteps) + 1

(* wlc_egl_init, egl.c:190-259, from step k on.  fail is the step whose    *)
(* call fails (NoFailure: none does), ext the result of eglQueryString,    *)
(* which is called between eglBindAPI and eglChooseConfig.                 *)
RECURSIVE egl_bring_up(_, _, _, _)
egl_bring_up(r, k, fail, ext) ==
  IF k > Len(EglSteps)
  THEN EglCall(r, "return_true")
  ELSE LET step == EglSteps[k]
           r1 == IF step.call = "eglChooseConfig"
                 THEN [EglCall(r, "eglQueryString") EXCEPT !.egl.extensions = ext]
                 ELSE r
           r2 == EglCall(r1, step.call)
       IN IF k = fail
          THEN EglCall(egl_terminate(r2), "return_false")
          ELSE egl_bring_up(
                 IF step.field = "" THEN r2
                 ELSE IF step.field = "has_current" THEN [r2 EXCEPT !.egl.has_current = TRUE]
                 ELSE [r2 EXCEPT !.egl[step.field] = 1],
                 k + 1, fail, ext)

wlc_egl_init(e, fail, ext) == egl_bring_up([egl |-> e, calls |-> << >>], 1, fail, ext)

(* The loop of wl_output_bind over the modes from index m on,              *)
(* output.c:80-90; elected is output->mode so far.                         *)
RECURSIVE elect_mode(_, _, _)
elect_mode(info, m, elected) ==
  IF m >= Len(info) THEN elected
  ELSE LET flags == info[m + 1].flags
       IN elect_mode(info, m + 1,
            IF "current" \in flags \/ (elected = UINT_MAX /\ "preferred" \in flags)
            THEN m ELSE elected)

(* output.c:324-339: release the triple, renderer first. *)
release_surface(out) ==
  IF out.surface = NULL THEN out
  ELSE LET o1 == IF out.render # NULL
                 THEN [Call(out, <<"render_free", out.render>>) EXCEPT !.render = NULL]
                 ELSE out
           o2 == IF o1.context # NULL
                 THEN [Call(o1, <<"context_free", o1.context>>) EXCEPT !.context = NULL]
                 ELSE o1
       IN [Call(o2, <<"backend_surface_free", o2.surface>>) EXCEPT !.surface = NULL]

(* output.c:318-354.  ctx_ok and render_ok are the outcomes of             *)
(* wlc_context_new and wlc_render_new; the fail label calls                *)
(* set_surface(output, NULL), which releases what was built.               *)
set_surface_no_rollback(out, surface, ctx_ok, render_ok) ==
  IF out.surface = surface THEN Call(out, <<"return", TRUE>>)
  ELSE LET o1 == [release_surface(out) EXCEPT !.surface = surface]
       IN IF surface = NULL THEN Call(o1, <<"return", TRUE>>)
          ELSE IF ~ctx_ok THEN Call(o1, <<"return", FALSE>>)
          ELSE LET o2 == [Call(o1, <<"context_new", surface>>) EXCEPT !.context = surface]
               IN IF ~render_ok THEN Call(o2, <<"return", FALSE>>)
                  ELSE Call([Call(o2, <<"render_new", surface>>) EXCEPT !.render = surface],
                            <<"return", TRUE>>)

wlc_output_set_surface(out, surface, ctx_ok, render_ok) ==
  IF out.surface = surface THEN Call(out, <<"return", TRUE>>)
  ELSE LET o1 == [release_surface(out) EXCEPT !.surface = surface]
       IN IF surface = NULL THEN Call(o1, <<"return", TRUE>>)
          ELSE IF ~ctx_ok THEN Call(release_surface(o1), <<"return", FALSE>>)
          ELSE LET o2 == [Call(o1, <<"context_new", surface>>) EXCEPT !.context = surface]
               IN IF ~render_ok THEN Call(release_surface(o2), <<"return", FALSE>>)
                  ELSE Call([Call(o2, <<"render_new", surface>>) EXCEPT !.render = surface],
                            <<"return", TRUE>>)

(***************************************************************************)
(* Surface migration, output.c:269-298.  w is the part of the state the    *)
(* two handlers touch: [output, surface_output, render_held,               *)
(* pointer_surface].  wlc_render_surface_destroy releases the resources    *)
(* the output's renderer holds for the surface; wlc_render_surface_attach  *)
(* creates them and returns attach_ok.  The log of the output that is      *)
(* attached to also names the wlc_output_surface_destroy it made on the    *)
(* surface's previous output.                                              *)
(***************************************************************************)
surface_destroy_no_repaint(w, o, s) ==
  [output |-> [w.output EXCEPT ![o] = Call(@, <<"surface_destroy", s>>)],
   surface_output |-> [w.surface_output EXCEPT ![s] = NULL],
   render_held |-> [w.render_held EXCEPT ![o] = @ \ {s}],
   pointer_surface |-> IF w.pointer_surface = s THEN NULL ELSE w.pointer_surface]

wlc_output_surface_destroy(w, o, s) ==
  [output |-> [w.output EXCEPT ![o] =
                 wlc_output_schedule_repaint(Call(@, <<"surface_destroy", s>>))],
   surface_output |-> [w.surface_output EXCEPT ![s] = NULL],
   render_held |-> [w.render_held EXCEPT ![o] = @ \ {s}],
   pointer_surface |-> IF w.pointer_surface = s THEN NULL ELSE w.pointer_surface]

surface_attach_keeps_old(w, o, s, attach_ok) ==
  IF ~attach_ok
  THEN [w EXCEPT !.output[o] = Call(Call(@, <<"surface_attach", s>>), <<"return", FALSE>>)]
  ELSE [w EXCEPT !.output[o] =
             Call(wlc_output_schedule_repaint(Call(@, <<"surface_attach", s>>)),
                  <<"return", TRUE>>),
           !.render_held[o] = @ \cup {s}]

wlc_output_surface_attach(w, o, s, attach_ok) ==
  LET old == w.surface_output[s]
      w1 == IF old # NULL /\ old # o
            THEN [wlc_output_surface_destroy(w, old, s)
                    EXCEPT !.output[o] = Call(@, <<"output_surface_destroy", old, s>>)]
            ELSE w
  IN IF ~attach_ok
     THEN [w1 EXCEPT !.output[o] = Call(Call(@, <<"surface_attach", s>>), <<"return", FALSE>>)]
     ELSE [w1 EXCEPT !.output[o] =
                Call(wlc_output_schedule_repaint(Call(@, <<"surface_attach", s>>)),
                     <<"return", TRUE>>),
              !.render_held[o] = @ \cup {s}]

(* The caller of a successful attach (surface.c) records the output in the *)
(* surface's back-reference.                                               *)
surface_set_output(w, o, s) == [w EXCEPT !.surface_output[s] = o]

(***************************************************************************)
(* Spaces, output.c:27-51.                                                 *)
(***************************************************************************)
(* wl_list_insert(list, elm); list_next is the value read from list->next. *)
wl_list_insert(lk, list, list_next, elm) ==
  LET l1 == [lk EXCEPT ![elm] = [prev |-> list, next |-> list_next]]
      l2 == [l1 EXCEPT ![list].next = elm]
  IN [l2 EXCEPT ![l2[elm].next].prev = elm]

wl_list_empty(lk, head) == lk[head].next = head

(* wlc_space_new links the space at the tail and leaves the focus alone. *)
wlc_space_new(lk, o, tail_next, addr) ==
  wl_list_insert(lk, lk[ListHead(o)].prev, tail_next, addr)

(* wlc_space_free: the new value of output->space.  The space is freed     *)
(* without wl_list_remove, so it is still on the list when wl_list_empty   *)
(* is evaluated.                                                           *)
wlc_space_free(lk, out, o, space) ==
  IF out.space = space
  THEN [out EXCEPT !.space =
          IF wl_list_empty(lk, ListHead(o)) THEN NULL ELSE lk[space].prev]
  ELSE out

(* output.c:505-518 *)
wlc_output_focus_space(out, space) ==
  IF out.space = space THEN out
  ELSE wlc_output_schedule_repaint(
         Call([out EXCEPT !.space = space], <<"space_activated", space>>))

(* output.c:430-440 *)
wlc_output_get_pixels(out, async) ==
  IF out.task_pixels # NULL THEN out
  ELSE wlc_output_schedule_repaint([out EXCEPT !.task_pixels = async])

(* output.c:356-362 *)
terminate_without_flag(out) == wlc_output_schedule_repaint(out)

wlc_output_terminate(out) ==
  wlc_output_schedule_repaint([out EXCEPT !.terminating = TRUE])

(***************************************************************************)
(* repaint, output.c:146-210.  bind_ok is the result of wlc_render_bind,   *)
(* vis of is_visible, alloc_ok of the calloc of the readback buffer; now   *)
(* is the clock reading while the handler runs.                            *)
(***************************************************************************)
RECURSIVE paint_views_keeps_lists(_, _)
paint_views_keeps_lists(vs, acc) ==
  IF vs = << >> THEN acc
  ELSE LET v == Head(vs)
           view == acc.views[v]
       IN IF ~view.created \/ ~view.attached
          THEN paint_views_keeps_lists(Tail(vs), acc)
          ELSE paint_views_keeps_lists(Tail(vs),
                 [out |-> Call(acc.out, <<"view_paint", v>>),
                  views |-> acc.views,
                  callbacks |-> view.frame_cb_list \o acc.callbacks])

RECURSIVE paint_views(_, _)
paint_views(vs, acc) ==
  IF vs = << >> THEN acc
  ELSE LET v == Head(vs)
           view == acc.views[v]
       IN IF ~view.created \/ ~view.attached
          THEN paint_views(Tail(vs), acc)
          ELSE paint_views(Tail(vs),
                 [out |-> Call(acc.out, <<"view_paint", v>>),
                  views |-> [acc.views EXCEPT ![v].frame_cb_list = << >>],
                  callbacks |-> view.frame_cb_list \o acc.callbacks])

RECURSIVE send_done_zero(_, _)
send_done_zero(out, callbacks) ==
  IF callbacks = << >> THEN out
  ELSE send_done_zero(Call(out, <<"send_done", Head(callbacks), 0>>), Tail(callbacks))

RECURSIVE send_done(_, _)
send_done(out, callbacks) ==
  IF callbacks = << >> THEN out
  ELSE send_done(Call(out, <<"send_done", Head(callbacks), out.frame_time>>),
                 Tail(callbacks))

read_pixels_keeps_task(out, alloc_ok) ==
  IF out.task_pixels # NULL /\ alloc_ok
  THEN Call(Call(out, <<"read_pixels">>), <<"task_pixels", out.task_pixels>>)
  ELSE out

read_pixels(out, alloc_ok) ==
  IF out.task_pixels # NULL /\ alloc_ok
  THEN [Call(Call(out, <<"read_pixels">>), <<"task_pixels", out.task_pixels>>)
          EXCEPT !.task_pixels = NULL]
  ELSE out

(* output.c:199-200 *)
issue_swap_unschedules(out) ==
  Call([out EXCEPT !.pending = TRUE, !.scheduled = FALSE], <<"swap">>)

issue_swap(out) == Call([out EXCEPT !.pending = TRUE], <<"swap">>)

repaint_skip_keeps_scheduled(out, o, vws, bind_ok, vis, alloc_ok) ==
  IF ~should_render(out) \/ ~bind_ok
  THEN [out |-> [out EXCEPT !.activity = FALSE],
        views |-> vws, callbacks |-> << >>, rendered |-> FALSE]
  ELSE
    LET o1 == Call(Call(out, <<"bind">>), <<"time", out.frame_time>>)
        o2 == IF enable_bg /\ ~o1.background_visible /\ vis
              THEN [o1 EXCEPT !.background_visible = TRUE] ELSE o1
        o3 == IF o2.background_visible THEN Call(o2, <<"background">>)
              ELSE IF ~enable_bg THEN Call(o2, <<"clear">>) ELSE o2
        p  == paint_views(SpaceViews(o3.space),
                          [out |-> o3, views |-> vws, callbacks |-> << >>])
        o4 == IF CompositorOutput = o THEN Call(p.out, <<"pointer_paint">>) ELSE p.out
        o5 == read_pixels(o4, alloc_ok)
        o6 == issue_swap(o5)
    IN [out |-> send_done(o6, p.callbacks),
        views |-> p.views, callbacks |-> p.callbacks, rendered |-> TRUE]

repaint(out, o, vws, bind_ok, vis, alloc_ok) ==
  IF ~should_render(out) \/ ~bind_ok
  THEN [out |-> [out EXCEPT !.activity = FALSE, !.scheduled = FALSE],
        views |-> vws, callbacks |-> << >>, rendered |-> FALSE]
  ELSE
    LET o1 == Call(Call(out, <<"bind">>), <<"time", out.frame_time>>)
        o2 == IF enable_bg /\ ~o1.background_visible /\ vis
              THEN [o1 EXCEPT !.background_visible = TRUE] ELSE o1
        o3 == IF o2.background_visible THEN Call(o2, <<"background">>)
              ELSE IF ~enable_bg THEN Call(o2, <<"clear">>) ELSE o2
        p  == paint_views(SpaceViews(o3.space),
                          [out |-> o3, views |-> vws, callbacks |-> << >>])
        o4 == IF CompositorOutput = o THEN Call(p.out, <<"pointer_paint">>) ELSE p.out
        o5 == read_pixels(o4, alloc_ok)
        o6 == issue_swap(o5)
    IN [out |-> send_done(o6, p.callbacks),
        views |-> p.views, callbacks |-> p.callbacks, rendered |-> TRUE]

(***************************************************************************)
(* History kept beside the program state, per output:                      *)
(*   op            the last handler that ran on the output                 *)
(*   was_pending   pending_flip as that handler found it                   *)
(*   task_before   task.pixels as that handler found it                    *)
(*   surface_before, arg, build_failed                                     *)
(*                 the backend surface that handler found; for set_surface *)
(*                 the surface passed, and whether it went on to build a   *)
(*                 context and renderer and one of the two failed          *)
(*   alloc_failed  that handler was a repaint that rendered with a         *)
(*                 readback pending and its calloc returned NULL           *)
(*   burst_n       schedule_repaint calls made in a row (no other handler  *)
(*                 of the output in between), burst_arms the timer         *)
(*                 armings they made, burst_first the output after the     *)
(*                 first of them, burst_sched0 scheduled before the first  *)
(*   outstanding   swaps issued since the last finish_frame                *)
(*   asked_pending schedule_repaint was called since the last finish_frame *)
(*                 while a flip was pending; asked_before the same as the  *)
(*                 finish_frame that ran last found it                     *)
(*   moved         for a surface_attach: the surface, the output its       *)
(*                 back-reference named before, the output attached to,    *)
(*                 the renderer's answer, and whether the handler left the *)
(*                 back-references, the renderers' resources, the          *)
(*                 pointer's surface and every output's scheduler flags as *)
(*                 it found them; kept by both outputs                     *)
(*   rearm_due     for a finish_frame: (background_visible or activity)    *)
(*                 and not terminating, as found at the test of            *)
(*                 output.c:237; ims_same: it left output->ims alone       *)
(*   skipped       that handler was a repaint that was skipped; views_same *)
(*                 it left every view's staged frame callbacks alone;      *)
(*                 after_skip: the schedule_repaint calls made in a row    *)
(*                 follow a skipped repaint                                *)
(*   term_called   terminate() was called since the last finish_frame      *)
(*   term_calls    how many times (counted up to MaxTerminate), and        *)
(*                 term_calls_before the count the last finish_frame found *)
(*   last_finish   the timestamp (ms) handed to the last finish_frame      *)
(*   swap_ms       the clock (ms) when the timer callback last ran         *)
(***************************************************************************)
State(out) == [out EXCEPT !.calls = << >>]

NoMove == [surface |-> NULL, from |-> NULL, to |-> NULL, ok |-> FALSE, same |-> TRUE]

Note(h, name, before, after) ==
  [h EXCEPT !.op = name, !.was_pending = before.pending,
            !.surface_before = before.surface, !.arg = NULL, !.build_failed = FALSE,
            !.task_before = before.task_pixels, !.alloc_failed = FALSE, !.burst_n = 0,
            !.burst_arms = 0, !.burst_sched0 = FALSE, !.burst_first = NULL,
            !.term_calls_before = 0, !.asked_before = FALSE, !.moved = NoMove,
            !.rearm_due = FALSE, !.ims_same = TRUE,
            !.skipped = FALSE, !.after_skip = FALSE, !.views_same = TRUE,
            !.outstanding = Min(2, @ + Count(after.calls, "swap"))]

NoteBurst(h, before, after) ==
  IF h.burst_n = 0
  THEN [h EXCEPT !.op = "schedule_repaint", !.was_pending = before.pending,
                 !.surface_before = before.surface, !.arg = NULL, !.build_failed = FALSE,
                 !.task_before = before.task_pixels, !.alloc_failed = FALSE, !.burst_n = 1,
                 !.term_calls_before = 0, !.asked_before = FALSE, !.moved = NoMove,
                 !.rearm_due = FALSE, !.ims_same = TRUE,
                 !.skipped = FALSE, !.after_skip = h.skipped, !.views_same = TRUE,
                 !.asked_pending = @ \/ before.pending,
                 !.burst_arms = Count(after.calls, "timer_update"),
                 !.burst_sched0 = before.scheduled,
                 !.burst_first = State(after)]
  ELSE [h EXCEPT !.op = "schedule_repaint", !.was_pending = before.pending,
                 !.surface_before = before.surface, !.arg = NULL, !.build_failed = FALSE,
                 !.task_before = before.task_pixels, !.alloc_failed = FALSE,
                 !.term_calls_before = 0, !.asked_before = FALSE, !.moved = NoMove,
                 !.rearm_due = FALSE, !.ims_same = TRUE,
                 !.asked_pending = @ \/ before.pending, !.burst_n = @ + 1,
                 !.burst_arms = @ + Count(after.calls, "timer_update")]

(* wlc_output_new, output.c:392-428: calloc, ims = 41, the first space,    *)
(* set_surface(surface), set_resolution (which schedules the first         *)
(* repaint).                                                               *)
NewOutput(o) ==
  wlc_output_schedule_repaint(
    [activity |-> FALSE, scheduled |-> FALSE, pending |-> FALSE,
     terminating |-> FALSE, background_visible |-> FALSE,
     ims |-> ImsInit * ImsScale, frame_time |-> 0, idle_timer |-> FALSE,
     task_pixels |-> NULL, surface |-> o, context |-> o, render |-> o,
     space |-> InitialSpace(o), calls |-> << >>])

(* The mode wlc_output_new reads for the resolution, output.c:420-421:     *)
(* output->mode is 0 from calloc, wl_output_bind has not run.              *)
new_resolution(info) ==
  LET md == info[0 + 1] IN [w |-> md.width, h |-> md.height]

(* The state after wlc_output_new on each output, with the interval of the *)
(* compositor's output at ims (41 ms right after construction).            *)
Adapted(info, ims) ==
  /\ information = [o \in Outputs |-> IF o = CompositorOutput THEN info ELSE SingleMode]
  /\ mode = [o \in Outputs |-> 0]
  /\ resolution = [o \in Outputs |->
                     new_resolution(IF o = CompositorOutput THEN info ELSE SingleMode)]
  /\ bound = [o \in Outputs |-> "never"]
  /\ output = [o \in Outputs |->
                 IF o = CompositorOutput THEN [NewOutput(o) EXCEPT !.ims = ims]
                 ELSE NewOutput(o)]
  /\ decay = [o \in Outputs |-> [from |-> output[o].ims, n |-> 0]]
  /\ active = TRUE
  /\ enable_bg \in BOOLEAN
  /\ clock = 1
  /\ views = [v \in Views |-> [created |-> TRUE, attached |-> (v = 1),
                               frame_cb_list |-> << >>]]
  /\ cb = [c \in Callbacks |-> [state |-> "unused", done_count |-> 0]]
  /\ hist = [o \in Outputs |->
              [op |-> "new", was_pending |-> FALSE, surface_before |-> NULL, arg |-> NULL,
               build_failed |-> FALSE, task_before |-> NULL,
               alloc_failed |-> FALSE, burst_n |-> 0, burst_arms |-> 0,
               burst_sched0 |-> FALSE, burst_first |-> NULL,
               outstanding |-> 0, term_called |-> FALSE, term_before |-> FALSE,
               term_calls |-> 0, term_calls_before |-> 0,
               asked_pending |-> FALSE, asked_before |-> FALSE, moved |-> NoMove,
               rearm_due |-> FALSE, ims_same |-> TRUE,
               skipped |-> FALSE, after_skip |-> FALSE, views_same |-> TRUE,
               last_finish |-> 0, swap_ms |-> 0]]
  /\ surface_output = [s \in Surfaces |-> NULL]
  /\ render_held = [o \in Outputs |-> {}]
  /\ pointer_surface = NULL
  /\ link = [n \in Nodes |->
               IF n \in {InitialSpace(o) : o \in Outputs}
                 THEN [next |-> ListHead(n), prev |-> ListHead(n)]
               ELSE IF n < 0 THEN [next |-> InitialSpace(0 - n), prev |-> InitialSpace(0 - n)]
               ELSE [next |-> NULL, prev |-> NULL]]
  /\ space_alive = {InitialSpace(o) : o \in Outputs}
  /\ space_output = [a \in SpaceAddrs |-> IF a \in Outputs THEN a ELSE NULL]
  /\ egl = EglZero
  /\ egl_calls = << >>
  /\ egl_live = {}
  /\ lookup = NoLookup
  /\ egl_fail = 0

(* The state after wlc_output_new on each output; info is the information  *)
(* handed to the compositor's output.                                      *)
Constructed(info) == Adapted(info, ImsInit * ImsScale)

Init == Constructed(SingleMode)

(* The compositor's output with its interval anywhere in [1, 41] ms. *)
InitDecay ==
  \E ims \in (ImsFloor * ImsScale)..(ImsCeil * ImsScale) : Adapted(SingleMode, ims)

InitModes == \E info \in ModeLists : Constructed(info)

Now == FrameTimeMs(TimeSamples[clock])

(* The done events of a call log, applied to the callback resources:      *)
(* wl_callback_send_done and wlc_callback_free, output.c:204-205.          *)
Signal(cbs, calls) ==
  [c \in Callbacks |->
     LET n == Cardinality({i \in DOMAIN calls : calls[i][1] = "send_done" /\ calls[i][2] = c})
     IN IF n = 0 THEN cbs[c]
        ELSE [cbs[c] EXCEPT !.state = "freed", !.done_count = @ + n]]

(* ---- handlers ---- *)

ScheduleRepaint(o) ==
  /\ hist[o].burst_n < MaxBurst
  /\ LET before == Begin(output[o])
         after == wlc_output_schedule_repaint(before)
     IN /\ output' = [output EXCEPT ![o] = after]
        /\ hist' = [hist EXCEPT ![o] = NoteBurst(@, before, after)]
  /\ UNCHANGED << active, enable_bg, clock, views, cb, migr, spc, eglv, modev, decay >>

(* cb_idle_timer, output.c:212-217: the armed timer expires; binds holds   *)
(* the answers wlc_render_bind may give.                                   *)
TimerExpires(o, binds) ==
  /\ output[o].idle_timer
  /\ \E bind_ok \in binds, vis \in BOOLEAN, alloc_ok \in BOOLEAN :
       \E r \in {repaint(Begin([output[o] EXCEPT !.idle_timer = FALSE]),
                           o, views, bind_ok, vis, alloc_ok)} :
          /\ output' = [output EXCEPT ![o] = r.out]
          /\ views' = r.views
          /\ cb' = Signal(cb, r.out.calls)
          /\ hist' = [hist EXCEPT ![o] =
                        [Note(@, "idle_timer", output[o], r.out)
                           EXCEPT !.swap_ms = Now,
                                  !.skipped = ~r.rendered,
                                  !.views_same = (r.views = views),
                                  !.alloc_failed = r.rendered /\ ~alloc_ok
                                                   /\ output[o].task_pixels # NULL]]
  /\ UNCHANGED << active, enable_bg, clock, migr, spc, eglv, modev, decay >>

IdleTimer(o) == TimerExpires(o, BOOLEAN)

(* The armed timer expires and wlc_render_bind succeeds. *)
BoundTimer(o) == TimerExpires(o, {TRUE})

(* wlc_output_finish_frame(output, &ts) runs on output o. *)
DeliverFrame(o) ==
  /\ \E vis \in BOOLEAN :
       LET before == Begin(output[o])
           after == wlc_output_finish_frame(before, TimeSamples[clock], vis)
       IN /\ output' = [output EXCEPT ![o] = after]
          /\ hist' = [hist EXCEPT ![o] =
                        [Note(@, "finish_frame", before, after)
                           EXCEPT !.outstanding = 0, !.term_before = hist[o].term_called,
                                  !.term_called = FALSE, !.last_finish = Now,
                                  !.term_calls = 0,
                                  !.term_calls_before = hist[o].term_calls,
                                  !.asked_pending = FALSE,
                                  !.asked_before = hist[o].asked_pending,
                                  !.rearm_due =
                                     /\ \/ before.activity
                                        \/ before.background_visible /\ ~(enable_bg /\ ~vis)
                                     /\ ~before.terminating,
                                  !.ims_same = (after.ims = before.ims)]]
  /\ UNCHANGED << active, enable_bg, clock, views, cb, migr, spc, eglv, modev >>

(* The backend reports a flip: wlc_output_finish_frame(output, &ts). *)
FinishFrame(o) ==
  /\ DeliverFrame(o)
  /\ UNCHANGED decay

(* A finish_frame that finds activity on an output that is not             *)
(* terminating, one more of a run of such frames.                          *)
ActiveFrame(o) ==
  /\ output[o].activity /\ ~output[o].terminating
  /\ decay[o].n < ActiveFrames
  /\ DeliverFrame(o)
  /\ decay' = [decay EXCEPT ![o].n = @ + 1]

(* finish_frame as the answer to a swap that is outstanding. *)
PageFlip(o) ==
  /\ output[o].pending
  /\ FinishFrame(o)

Terminate(o) ==
  /\ LET before == Begin(output[o])
         after == wlc_output_terminate(before)
     IN /\ output' = [output EXCEPT ![o] = after]
        /\ hist' = [hist EXCEPT ![o] =
                      [Note(@, "terminate", before, after)
                         EXCEPT !.term_called = TRUE,
                                !.term_calls = Min(MaxTerminate, @ + 1)]]
  /\ UNCHANGED << active, enable_bg, clock, views, cb, migr, spc, eglv, modev, decay >>

GetPixels(o, async) ==
  /\ LET before == Begin(output[o])
         after == wlc_output_get_pixels(before, async)
     IN /\ output' = [output EXCEPT ![o] = after]
        /\ hist' = [hist EXCEPT ![o] = Note(@, "get_pixels", before, after)]
  /\ UNCHANGED << active, enable_bg, clock, views, cb, migr, spc, eglv, modev, decay >>

(* The backend hands the output a surface: NULL, the one it has, or one    *)
(* that no output holds.                                                   *)
SetSurface(o, surface) ==
  /\ surface = NULL \/ surface = output[o].surface
       \/ \A p \in Outputs : output[p].surface # surface
  /\ \E ctx_ok \in BOOLEAN, render_ok \in BOOLEAN :
       LET before == Begin(output[o])
           after == wlc_output_set_surface(before, surface, ctx_ok, render_ok)
       IN /\ output' = [output EXCEPT ![o] = after]
          /\ hist' = [hist EXCEPT ![o] =
                        [Note(@, "set_surface", before, after)
                           EXCEPT !.arg = surface,
                                  !.build_failed = /\ surface # NULL
                                                   /\ surface # before.surface
                                                   /\ (~ctx_ok \/ ~render_ok)]]
  /\ UNCHANGED << active, enable_bg, clock, views, cb, migr, spc, eglv, modev, decay >>

World == [output |-> [o \in Outputs |-> Begin(output[o])],
          surface_output |-> surface_output, render_held |-> render_held,
          pointer_surface |-> pointer_surface]

(* The handlers below run on the outputs they touch; the others keep the   *)
(* call log of their own last handler.                                     *)
Touched(w) == {o \in Outputs : w.output[o] # Begin(output[o])}

CommitMove(w, name, mv) ==
  /\ output' = [o \in Outputs |-> IF o \in Touched(w) THEN w.output[o] ELSE output[o]]
  /\ hist' = [o \in Outputs |->
                IF o \in Touched(w)
                THEN [Note(hist[o], name, output[o], w.output[o]) EXCEPT !.moved = mv]
                ELSE hist[o]]
  /\ surface_output' = w.surface_output
  /\ render_held' = w.render_held
  /\ pointer_surface' = w.pointer_surface

Commit(w, name) == CommitMove(w, name, NoMove)

(* The scheduler flags of an output, and whether a handler that ends in w  *)
(* changed nothing of what a surface_attach may touch.                     *)
Flags(out) == << out.activity, out.scheduled, out.pending, out.idle_timer >>
Same(w) ==
  /\ w.surface_output = surface_output
  /\ w.render_held = render_held
  /\ w.pointer_surface = pointer_surface
  /\ \A o \in Outputs : Flags(w.output[o]) = Flags(output[o])

(* A surface commits a buffer on output o (surface.c): surface_attach and, *)
(* when it succeeds, the update of the back-reference.                     *)
SurfaceAttach(o, s) ==
  /\ \E attach_ok \in BOOLEAN :
       LET w == wlc_output_surface_attach(World, o, s, attach_ok)
       IN CommitMove(IF attach_ok THEN surface_set_output(w, o, s) ELSE w, "surface_attach",
                     [surface |-> s, from |-> surface_output[s], to |-> o, ok |-> attach_ok,
                      same |-> Same(w)])
  /\ UNCHANGED << active, enable_bg, clock, views, cb, spc, eglv, modev, decay >>

(* A surface is destroyed or loses its buffer (surface.c): surface_destroy *)
(* on the output it is attached to.                                        *)
SurfaceDestroy(o, s) ==
  /\ surface_output[s] = o
  /\ Commit(wlc_output_surface_destroy(World, o, s), "surface_destroy")
  /\ UNCHANGED << active, enable_bg, clock, views, cb, spc, eglv, modev, decay >>

(* The pointer enters a surface (seat/pointer.c). *)
PointerEnter(s) ==
  /\ pointer_surface' = s
  /\ UNCHANGED << output, active, enable_bg, clock, views, cb, hist,
                  surface_output, render_held, spc, eglv, modev, decay >>

(* wlc_space_add, output.c:563-568.  calloc fails, or returns an address   *)
(* that holds no live space (possibly that of a freed space still on the   *)
(* list).  When the tail of the list is a freed space, list->next is read  *)
(* from freed memory and may be any node.                                  *)
SpaceAdd(o) ==
  /\ \E addr \in (SpaceAddrs \ space_alive) \cup {NULL} :
       IF addr = NULL
       THEN UNCHANGED << link, space_alive, space_output >>
       ELSE LET tail == link[ListHead(o)].prev
            IN \E tail_next \in (IF tail \in space_alive \/ tail = ListHead(o)
                                 THEN {link[tail].next} ELSE Nodes) :
                 /\ link' = wlc_space_new(link, o, tail_next, addr)
                 /\ space_alive' = space_alive \cup {addr}
                 /\ space_output' = [space_output EXCEPT ![addr] = o]
  /\ UNCHANGED << output, active, enable_bg, clock, views, cb, hist, migr, eglv, modev, decay >>

(* wlc_space_remove, output.c:570-576, in a build without assertions (with *)
(* them the call aborts at the assert(0)).                                 *)
SpaceRemove(space) ==
  /\ space \in space_alive
  /\ LET o == space_output[space]
         before == Begin(output[o])
         after == wlc_space_free(link, before, o, space)
     IN /\ output' = [output EXCEPT ![o] = after]
        /\ hist' = [hist EXCEPT ![o] = Note(@, "space_remove", before, after)]
  /\ space_alive' = space_alive \ {space}
  /\ UNCHANGED << active, enable_bg, clock, views, cb, migr, link, space_output, eglv, modev, decay >>

(* wlc_output_focus_space with one of the output's spaces. *)
FocusSpace(o, space) ==
  /\ space \in space_alive
  /\ space_output[space] = o
  /\ LET before == Begin(output[o])
         after == wlc_output_focus_space(before, space)
     IN /\ output' = [output EXCEPT ![o] = after]
        /\ hist' = [hist EXCEPT ![o] = Note(@, "focus_space", before, after)]
  /\ UNCHANGED << active, enable_bg, clock, views, cb, migr, spc, eglv, modev, decay >>

(* What the calls of a handler of egl.c acquire from and give back to the  *)
(* backend, the dynamic loader and the EGL library.  A failed call         *)
(* acquires nothing; "twice" marks a release of something not held.        *)
Acquires(call) ==
  CASE call = "wlc_backend_init" -> {"backend"}
    [] call = "dlopen" -> {"handle"}
    [] call = "eglGetDisplay" -> {"display"}
    [] call = "eglCreateContext" -> {"context"}
    [] call = "eglCreateWindowSurface" -> {"surface"}
    [] call = "eglMakeCurrent" -> {"current"}
    [] OTHER -> {}

Releases(call) ==
  CASE call = "backend_terminate" -> {"backend"}
    [] call = "dlclose" -> {"handle"}
    [] call = "eglTerminate" -> {"display"}
    [] call = "eglDestroyContext" -> {"context"}
    [] call = "eglDestroySurface" -> {"surface"}
    [] call = "eglMakeCurrent_none" -> {"current"}
    [] OTHER -> {}

RECURSIVE Held(_, _, _, _)
Held(live, calls, i, fail) ==
  IF i > Len(calls) THEN live
  ELSE LET failed == fail <= Len(EglSteps) /\ calls[i] = EglSteps[fail].call
           got == IF failed THEN {} ELSE Acquires(calls[i])
           gone == Releases(calls[i])
       IN Held(((live \cup got) \ gone)
                 \cup (IF gone \subseteq live THEN {} ELSE {"twice"}),
               calls, i + 1, fail)

(* wl_output_bind, output.c:60-101: a client binds the output's global.    *)
(* The assertion of output.c:92 fails when no mode was elected.            *)
Bind(o) ==
  /\ mode' = [mode EXCEPT ![o] = elect_mode(information[o], 0, UINT_MAX)]
  /\ bound' = [bound EXCEPT ![o] = IF mode'[o] # UINT_MAX THEN "done" ELSE "assert"]
  /\ UNCHANGED << output, active, enable_bg, clock, views, cb, hist, migr, spc, eglv,
                  information, resolution, decay >>

(* wlc_egl_init(out_context) on the zeroed struct egl. *)
EglInit ==
  /\ egl = EglZero
  /\ \E fail \in 1..NoFailure, ext \in {<< >>} \cup {<< x >> : x \in ExtStrings} :
       LET r == wlc_egl_init(egl, fail, ext)
       IN /\ egl' = r.egl
          /\ egl_calls' = r.calls
          /\ egl_live' = Held(egl_live, r.calls, 1, fail)
          /\ lookup' = NoLookup
          /\ egl_fail' = fail
  /\ UNCHANGED << output, active, enable_bg, clock, views, cb, hist, migr, spc, modev, decay >>

(* The context's terminate, egl.c:165-188. *)
EglTerminate ==
  /\ LET r == egl_terminate([egl |-> egl, calls |-> << >>])
     IN /\ egl' = r.egl
        /\ egl_calls' = Append(r.calls, "terminate")
        /\ egl_live' = Held(egl_live, r.calls, 1, NoFailure)
        /\ lookup' = NoLookup
        /\ egl_fail' = 0
  /\ UNCHANGED << output, active, enable_bg, clock, views, cb, hist, migr, spc, modev, decay >>

(* has_extension(name), egl.c:135-154. *)
HasExtension(name) ==
  /\ egl_calls' = << "has_extension" >>
  /\ lookup' = [name |-> name, found |-> has_extension(egl, name)]
  /\ egl_fail' = 0
  /\ UNCHANGED << output, active, enable_bg, clock, views, cb, hist, migr, spc,
                  egl, egl_live, modev, decay >>

(* The session gains or loses the foreground: wlc_get_active() changes. *)
SetActive ==
  /\ active' = ~active
  /\ UNCHANGED << output, enable_bg, clock, views, cb, hist, migr, spc, eglv, modev, decay >>

(* A client requests a frame callback on the surface of view v and commits *)
(* (surface.c): the callback is staged on the surface's commit state and   *)
(* the commit schedules a repaint of the output.                           *)
FrameRequest(v) ==
  /\ \E c \in Callbacks :
       /\ cb[c].state = "unused"
       /\ \A d \in Callbacks : cb[d].state = "unused" => c <= d
       /\ cb' = [cb EXCEPT ![c].state = "staged"]
       /\ views' = [views EXCEPT ![v].frame_cb_list = Append(@, c)]
  /\ LET before == Begin(output[1])
         after == wlc_output_schedule_repaint(before)
     IN /\ output' = [output EXCEPT ![1] = after]
        /\ hist' = [hist EXCEPT ![1] = Note(@, "commit", before, after)]
  /\ UNCHANGED << active, enable_bg, clock, migr, spc, eglv, modev, decay >>

(* CLOCK_MONOTONIC advances to the next sample. *)
Tick ==
  /\ clock < Len(TimeSamples)
  /\ clock' = clock + 1
  /\ UNCHANGED << output, active, enable_bg, views, cb, hist, migr, spc, eglv, modev, decay >>

(* ---- the scheduler of one output, finish_frame callable at any time ---- *)
Next ==
  \/ ScheduleRepaint(1)
  \/ IdleTimer(1)
  \/ FinishFrame(1)
  \/ Terminate(1)
  \/ SetActive

Spec == Init /\ [][Next]_vars

(* ---- the same scheduler when the backend calls finish_frame only for a ---- *)
(* ---- swap that is outstanding                                          ---- *)
NextFlip ==
  \/ ScheduleRepaint(1)
  \/ IdleTimer(1)
  \/ PageFlip(1)
  \/ Terminate(1)
  \/ SetActive

SpecFlip == Init /\ [][NextFlip]_vars

Swaps(o) == Count(output[o].calls, "swap")
TimerUpdates(o) == Count(output[o].calls, "timer_update")
Removes(o) == Count(output[o].calls, "emit_remove")

(***************************************************************************)
(* C1: repaints never overlap on one output.  A handler issues at most one *)
(* swap, only repaint (the timer callback) issues one and only when it     *)
(* found pending_flip false; so at most one swap is outstanding between    *)
(* two finish_frame calls, and pending_flip is set exactly while one is.   *)
(***************************************************************************)
C1_NoOverlappingRepaints ==
  \A o \in Outputs :
    /\ Swaps(o) <= 1
    /\ Swaps(o) = 1 => hist[o].op = "idle_timer" /\ ~hist[o].was_pending
    /\ hist[o].outstanding <= 1
    /\ output[o].pending <=> hist[o].outstanding = 1

(* The timer fired while a swap was outstanding and the repaint was skipped. *)
C1_Witness ==
  /\ hist[1].op = "idle_timer"
  /\ hist[1].was_pending
  /\ Swaps(1) = 0
  /\ output[1].pending
  /\ hist[1].outstanding = 1

(***************************************************************************)
(* C2: schedule_repaint coalesces.  After n >= 1 calls in a row the output *)
(* is as the first call left it; the calls armed the timer once when the   *)
(* output was not scheduled before them (and not at all when it already    *)
(* was, as one call would), the one timer is then armed, and its expiry    *)
(* runs repaint once and leaves the timer disarmed.                        *)
(***************************************************************************)
C2_Coalescing ==
  \A o \in Outputs :
    /\ hist[o].burst_n >= 1 =>
         /\ State(output[o]) = hist[o].burst_first
         /\ hist[o].burst_arms = (IF hist[o].burst_sched0 THEN 0 ELSE 1)
         /\ ~hist[o].burst_sched0 => output[o].idle_timer
         /\ output[o].activity /\ output[o].scheduled
    /\ hist[o].op = "idle_timer" => ~output[o].idle_timer /\ TimerUpdates(o) = 0

(* A burst of MaxBurst calls on an unscheduled output armed the timer once. *)
C2_Witness ==
  /\ hist[1].burst_n = MaxBurst
  /\ ~hist[1].burst_sched0
  /\ hist[1].burst_arms = 1
  /\ output[1].idle_timer

(***************************************************************************)
(* C4: termination is observed exactly once.  terminating is set from      *)
(* terminate() until the first finish_frame that follows; that             *)
(* finish_frame emits OUTPUT_EVENT_REMOVE once and clears the flag; a      *)
(* finish_frame with no terminate() since the previous one emits nothing,  *)
(* and no other handler emits the event.                                   *)
(***************************************************************************)
C4_TerminationObservedOnce ==
  \A o \in Outputs :
    /\ output[o].terminating = hist[o].term_called
    /\ hist[o].op = "finish_frame" =>
         /\ Removes(o) = (IF hist[o].term_before THEN 1 ELSE 0)
         /\ ~output[o].terminating
    /\ hist[o].op # "finish_frame" => Removes(o) = 0

(* The first finish_frame after terminate() emitted the event. *)
C4_Witness ==
  /\ hist[1].op = "finish_frame"
  /\ hist[1].term_before
  /\ Removes(1) = 1
  /\ ~output[1].terminating

(***************************************************************************)
(* C6: the idle interval stays within [1, 41] ms in every state.           *)
(***************************************************************************)
C6_IdleIntervalRange ==
  \A o \in Outputs :
    /\ ImsFloor * ImsScale <= output[o].ims
    /\ output[o].ims <= ImsCeil * ImsScale

(* finish_frame decayed the interval down to the floor. *)
C6_Witness ==
  /\ hist[1].op = "finish_frame"
  /\ TimerUpdates(1) = 1
  /\ output[1].ims = ImsFloor * ImsScale

(***************************************************************************)
(* C7 as stated: in every reachable state pending_flip implies not         *)
(* scheduled.                                                              *)
(***************************************************************************)
C7_PendingImpliesNotScheduled ==
  \A o \in Outputs : output[o].pending => ~output[o].scheduled

(***************************************************************************)
(* C7 amended: when finish_frame answers outstanding swaps only,           *)
(* pending_flip implies scheduled (repaint leaves the flag set when it     *)
(* swaps), and a handler that finds a flip pending arms the timer only if  *)
(* it is finish_frame.                                                     *)
(***************************************************************************)
C7_PendingKeepsScheduled ==
  \A o \in Outputs :
    /\ output[o].pending => output[o].scheduled
    /\ hist[o].was_pending /\ TimerUpdates(o) > 0 => hist[o].op = "finish_frame"

(* schedule_repaint was called while a flip was pending and armed nothing. *)
C7_Witness ==
  /\ hist[1].op = "schedule_repaint"
  /\ hist[1].was_pending
  /\ output[1].pending
  /\ output[1].scheduled
  /\ TimerUpdates(1) = 0

(* ---- frame callbacks: clients stage callbacks while the clock runs ---- *)
NextFrames ==
  \/ FrameRequest(1)
  \/ FrameRequest(2)
  \/ Tick
  \/ IdleTimer(1)
  \/ FinishFrame(1)

SpecFrames == Init /\ [][NextFrames]_vars

Dones(o) == {i \in DOMAIN output[o].calls : output[o].calls[i][1] = "send_done"}

(***************************************************************************)
(* C3 as stated: a frame callback signaled by a repaint carries the        *)
(* timestamp of that repaint's swap (the clock when the swap was issued).  *)
(***************************************************************************)
C3_DoneCarriesSwapTime ==
  \A o \in Outputs : \A i \in Dones(o) : output[o].calls[i][3] = hist[o].swap_ms

(***************************************************************************)
(* C3 amended: a frame callback staged before swap N is signaled by the    *)
(* repaint that issues swap N, after the swap, with output->frame_time:    *)
(* the timestamp the last finish_frame before that repaint stored (0 when  *)
(* there was none), never the time of the swap or of a later finish_frame. *)
(***************************************************************************)
C3_DoneCarriesLastFinishTime ==
  \A o \in Outputs : \A i \in Dones(o) :
    /\ hist[o].op = "idle_timer"
    /\ output[o].calls[i][3] = hist[o].last_finish
    /\ IndexOf(output[o].calls, "swap") \in 1..(i - 1)

(* A callback was signaled with the previous frame's timestamp by a repaint *)
(* that ran later than that finish_frame.                                   *)
C3_Witness ==
  /\ hist[1].op = "idle_timer"
  /\ \E i \in Dones(1) : output[1].calls[i][3] = hist[1].last_finish
  /\ hist[1].last_finish > 0
  /\ hist[1].swap_ms > hist[1].last_finish

(* The views whose staged callbacks hold c, and the views a repaint of o    *)
(* paints: the created, attached views of the focused space.               *)
StagedOn(c) ==
  {v \in Views : \E i \in DOMAIN views[v].frame_cb_list : views[v].frame_cb_list[i] = c}
Painted(o) ==
  {v \in Views : /\ \E i \in DOMAIN SpaceViews(output[o].space) :
                       SpaceViews(output[o].space)[i] = v
                 /\ views[v].created /\ views[v].attached}

(***************************************************************************)
(* C17: a repaint that renders moves every frame callback staged on a      *)
(* created, attached view of the focused space out of the view's list,     *)
(* which is left empty, and sends each exactly one done, after the swap    *)
(* was issued and pending_flip set.  A callback is either staged in one    *)
(* list and not yet signaled, or signaled once and in no list: none is     *)
(* dropped or signaled twice by later repaints.                            *)
(***************************************************************************)
C17_FrameCallbacksDoneOnceAfterSwap ==
  /\ \A c \in Callbacks :
       /\ cb[c].state = "unused" => cb[c].done_count = 0 /\ StagedOn(c) = {}
       /\ cb[c].state = "staged" => cb[c].done_count = 0 /\ Cardinality(StagedOn(c)) = 1
       /\ cb[c].state = "freed" => cb[c].done_count = 1 /\ StagedOn(c) = {}
  /\ \A o \in Outputs :
       /\ hist[o].op = "idle_timer" /\ Swaps(o) = 1 =>
            /\ \A v \in Painted(o) : views[v].frame_cb_list = << >>
            /\ output[o].pending
       /\ \A i \in Dones(o) :
            /\ IndexOf(output[o].calls, "swap") \in 1..(i - 1)
            /\ cb[output[o].calls[i][2]].state = "freed"
            /\ \A j \in Dones(o) : output[o].calls[j][2] = output[o].calls[i][2] => j = i

(* A repaint signaled every callback there is, all staged on the painted   *)
(* view.                                                                   *)
C17_Witness ==
  /\ hist[1].op = "idle_timer"
  /\ Cardinality(Dones(1)) = MaxCallbacks
  /\ \A c \in Callbacks : cb[c].done_count = 1
  /\ views[1].frame_cb_list = << >>

(* ---- pixel readback requests against the scheduler ---- *)
NextPixels ==
  \/ \E async \in PixelCallbacks : GetPixels(1, async)
  \/ IdleTimer(1)
  \/ FinishFrame(1)
  \/ SetActive

SpecPixels == Init /\ [][NextPixels]_vars

Invoked(o) == {i \in DOMAIN output[o].calls : output[o].calls[i][1] = "task_pixels"}
Drawn(o) == {i \in DOMAIN output[o].calls :
               output[o].calls[i][1] \in {"view_paint", "pointer_paint", "read_pixels"}}

(* The readback the handler found pending was delivered by it: its callback *)
(* ran once, after the drawing and before the swap, and the task is clear.  *)
Delivered(o) ==
  /\ Cardinality(Invoked(o)) = 1
  /\ \A i \in Invoked(o) :
       /\ output[o].calls[i][2] = hist[o].task_before
       /\ \A j \in Drawn(o) : j < i
       /\ i < IndexOf(output[o].calls, "swap")
  /\ output[o].task_pixels = NULL

(* get_pixels with a readback pending changes nothing, the callback runs in *)
(* no handler but a repaint that renders and found the task pending.        *)
OneShot(o) ==
  /\ hist[o].op = "get_pixels" /\ hist[o].task_before # NULL =>
       /\ output[o].task_pixels = hist[o].task_before
       /\ output[o].calls = << >>
  /\ Invoked(o) # {} =>
       hist[o].op = "idle_timer" /\ Swaps(o) = 1 /\ hist[o].task_before # NULL

(***************************************************************************)
(* C10 as stated: get_pixels is ignored while a readback is pending, and   *)
(* the pending callback is invoked exactly once inside the next repaint    *)
(* that renders, after the views are drawn and before the swap, and the    *)
(* task is then cleared.                                                   *)
(***************************************************************************)
C10_ReadbackInNextRenderedRepaint ==
  \A o \in Outputs :
    /\ OneShot(o)
    /\ hist[o].op = "idle_timer" /\ Swaps(o) = 1 /\ hist[o].task_before # NULL =>
         Delivered(o)

(***************************************************************************)
(* C10 amended: as stated, but the callback is invoked by the next repaint *)
(* that renders and whose readback buffer allocation succeeds; a rendered  *)
(* repaint whose calloc fails swaps without invoking the callback and      *)
(* leaves the task pending for a later repaint.                            *)
(***************************************************************************)
C10_ReadbackInNextRepaintThatAllocates ==
  \A o \in Outputs :
    /\ OneShot(o)
    /\ hist[o].op = "idle_timer" /\ Swaps(o) = 1 /\ hist[o].task_before # NULL =>
         IF hist[o].alloc_failed
         THEN Invoked(o) = {} /\ output[o].task_pixels = hist[o].task_before
         ELSE Delivered(o)
    /\ hist[o].op = "idle_timer" /\ Swaps(o) = 0 =>
         output[o].task_pixels = hist[o].task_before

(* A rendered repaint delivered the pending readback between draw and swap. *)
C10_Witness ==
  /\ hist[1].op = "idle_timer"
  /\ hist[1].task_before # NULL
  /\ Swaps(1) = 1
  /\ Delivered(1)
  /\ \E j \in Drawn(1) : output[1].calls[j][1] = "view_paint"

(* ---- the backend replaces the surface of a running output ---- *)
NextSurface ==
  \/ \E surface \in BackendSurfaces \cup {NULL} : SetSurface(1, surface)
  \/ ScheduleRepaint(1)
  \/ IdleTimer(1)
  \/ PageFlip(1)

SpecSurface == Init /\ [][NextSurface]_vars

NullTriple(out) == out.surface = NULL /\ out.context = NULL /\ out.render = NULL
FullTriple(out) == out.surface # NULL /\ out.context # NULL /\ out.render # NULL

Returned(o) == output[o].calls[Len(output[o].calls)][2]
Frees(o, id) == {i \in DOMAIN output[o].calls :
                   /\ output[o].calls[i][1] \in {"render_free", "context_free",
                                                 "backend_surface_free"}
                   /\ output[o].calls[i][2] = id}
Builds(o) == {i \in DOMAIN output[o].calls :
                output[o].calls[i][1] \in {"context_new", "render_new"}}

(***************************************************************************)
(* C9: after every set_surface call the (surface, context, render) triple  *)
(* is all present or all absent.  A call whose context or renderer         *)
(* creation fails returns false and leaves the null triple; a call that    *)
(* replaces a present triple frees its renderer, context and surface, each *)
(* once and before anything of the new triple is built.                    *)
(***************************************************************************)
C9_TripleAllOrNothing ==
  \A o \in Outputs :
    /\ NullTriple(output[o]) \/ FullTriple(output[o])
    /\ hist[o].op = "set_surface" =>
         /\ hist[o].build_failed => ~Returned(o) /\ NullTriple(output[o])
         /\ ~hist[o].build_failed =>
              Returned(o) /\ output[o].surface = hist[o].arg
         /\ hist[o].surface_before # NULL /\ hist[o].arg # hist[o].surface_before =>
              /\ Cardinality(Frees(o, hist[o].surface_before)) = 3
              /\ \A i \in Frees(o, hist[o].surface_before) : \A j \in Builds(o) : i < j

(* A present triple was replaced and the renderer of the new one failed. *)
C9_Witness ==
  /\ hist[1].op = "set_surface"
  /\ hist[1].surface_before # NULL
  /\ hist[1].build_failed
  /\ Builds(1) # {}
  /\ ~Returned(1)
  /\ NullTriple(output[1])

(* ---- surfaces move between the two outputs ---- *)
NextMigrate ==
  \/ \E o \in Outputs, s \in Surfaces : SurfaceAttach(o, s)
  \/ \E o \in Outputs, s \in Surfaces : SurfaceDestroy(o, s)
  \/ \E s \in Surfaces : PointerEnter(s)
  \/ \E o \in Outputs : IdleTimer(o)

SpecMigrate == Init /\ [][NextMigrate]_vars

Holders(s) == {o \in Outputs : s \in render_held[o]}

Migrated(s, a, b) ==
  /\ a # b
  /\ hist[a].moved.surface = s /\ hist[a].moved.from = a
  /\ hist[a].moved.to = b /\ hist[a].moved.ok
  /\ hist[b].moved = hist[a].moved

(***************************************************************************)
(* C18: surface migration.  When a surface attached to output A is         *)
(* attached to another output B and the renderer attach succeeds, A's      *)
(* renderer released the surface before B's attached it, A and B both end  *)
(* with a repaint scheduled (activity and scheduled), and the surface's    *)
(* back-reference names B.                                                 *)
(***************************************************************************)
C18_MigrationReleasesThenAttaches ==
  \A s \in Surfaces : \A a \in Outputs : \A b \in Outputs :
    Migrated(s, a, b) =>
      /\ hist[a].op = "surface_attach"
      /\ IndexOf(output[a].calls, "surface_destroy") = 1
      /\ output[a].calls[1] = <<"surface_destroy", s>>
      /\ \A i \in DOMAIN output[b].calls : \A j \in DOMAIN output[b].calls :
           (/\ output[b].calls[i] = <<"output_surface_destroy", a, s>>
            /\ output[b].calls[j] = <<"surface_attach", s>>) => i < j
      /\ s \notin render_held[a] /\ s \in render_held[b]
      /\ output[a].activity /\ output[a].scheduled
      /\ output[b].activity /\ output[b].scheduled
      /\ surface_output[s] = b

(* A surface moved from output 1 to output 2 while neither had a repaint    *)
(* scheduled: both armed their timers.                                      *)
C18_Witness ==
  /\ \E s \in Surfaces : Migrated(s, 1, 2)
  /\ TimerUpdates(1) = 1
  /\ TimerUpdates(2) = 1

(***************************************************************************)
(* C19: when the renderer's surface_attach fails, surface_attach returns   *)
(* false without partial state: the surface's back-reference, its          *)
(* renderer resources on a previously attached output, the pointer's       *)
(* surface and the scheduler flags of every output are as before the call. *)
(***************************************************************************)
C19_FailedAttachChangesNothing ==
  \A o \in Outputs :
    hist[o].op = "surface_attach" /\ hist[o].moved.to = o /\ ~hist[o].moved.ok =>
      /\ \E i \in DOMAIN output[o].calls : output[o].calls[i] = <<"return", FALSE>>
      /\ hist[o].moved.same

(* ---- spaces are added to, focused on and removed from an output ---- *)
NextSpaces ==
  \/ SpaceAdd(1)
  \/ \E space \in SpaceAddrs : SpaceRemove(space)
  \/ \E space \in SpaceAddrs : FocusSpace(1, space)

SpecSpaces == Init /\ [][NextSpaces]_vars

(* The spaces of output o: created on it and not destroyed. *)
SpacesOf(o) == {a \in space_alive : space_output[a] = o}

(***************************************************************************)
(* C8: after any sequence of wlc_space_add, focus_space and space          *)
(* destruction the focused space is one of the output's spaces, or it is   *)
(* null and the output has no space; destroying the focused space moves    *)
(* the focus to the previous sibling, or to null when none remains.        *)
(***************************************************************************)
C8_FocusedSpaceIsMember ==
  \A o \in Outputs :
    \/ output[o].space \in SpacesOf(o)
    \/ output[o].space = NULL /\ SpacesOf(o) = {}

(***************************************************************************)
(* C11 as stated: terminate() emits OUTPUT_EVENT_REMOVE exactly once per   *)
(* call.  The emissions and the calls of an output are equal in number     *)
(* after every finish_frame exactly when every finish_frame emits as many  *)
(* events as terminate() was called since the previous finish_frame.       *)
(***************************************************************************)
C11_OneRemovePerTerminateCall ==
  \A o \in Outputs :
    hist[o].op = "finish_frame" => Removes(o) = hist[o].term_calls_before

(***************************************************************************)
(* C11 amended: terminate() emits nothing itself; a finish_frame emits     *)
(* OUTPUT_EVENT_REMOVE once when terminate() was called one or more times  *)
(* since the previous finish_frame and not at all otherwise, so several    *)
(* calls before one finish_frame share one event.                          *)
(***************************************************************************)
C11_OneRemovePerTerminatedFrame ==
  \A o \in Outputs :
    /\ hist[o].op = "finish_frame" => Removes(o) = Min(1, hist[o].term_calls_before)
    /\ hist[o].op = "terminate" =>
         Removes(o) = 0 /\ hist[o].term_calls >= 1 /\ output[o].terminating

(* terminate() was called MaxTerminate times and finish_frame emitted once. *)
C11_Witness ==
  /\ hist[1].op = "finish_frame"
  /\ hist[1].term_calls_before = MaxTerminate
  /\ Removes(1) = 1

(***************************************************************************)
(* C16 as stated: page-flip backpressure.  After schedule_repaint, a       *)
(* repaint that issued a swap, and schedule_repaint while the flip is      *)
(* pending, the second request leads to a repaint invocation (the timer is *)
(* armed for it) that short-circuits (activity cleared, no swap); the next *)
(* finish_frame re-arms the timer and scheduled becomes true.              *)
(***************************************************************************)
C16_SecondRequestSkipsThenRearms ==
  \A o \in Outputs :
    /\ hist[o].op = "schedule_repaint" /\ hist[o].was_pending => output[o].idle_timer
    /\ hist[o].op = "idle_timer" /\ hist[o].was_pending =>
         Swaps(o) = 0 /\ ~output[o].activity
    /\ hist[o].op = "finish_frame" /\ hist[o].asked_before /\ ~hist[o].term_before =>
         output[o].scheduled /\ output[o].idle_timer

(***************************************************************************)
(* C16 as the code has it: the second request, made while the flip is      *)
(* pending, finds scheduled still true and only marks activity: it arms no *)
(* timer, so no repaint runs before the flip arrives; the finish_frame     *)
(* that follows finds the activity, re-arms the timer once and leaves      *)
(* scheduled true, unless terminate() was called in between.               *)
(***************************************************************************)
C16_SecondRequestKeptForFinishFrame ==
  \A o \in Outputs :
    /\ hist[o].op = "schedule_repaint" /\ hist[o].was_pending =>
         /\ output[o].pending /\ output[o].activity /\ output[o].scheduled
         /\ ~output[o].idle_timer
         /\ TimerUpdates(o) = 0
    /\ hist[o].op = "idle_timer" => ~hist[o].was_pending
    /\ hist[o].op = "finish_frame" /\ hist[o].asked_before /\ ~hist[o].term_before =>
         /\ output[o].scheduled /\ output[o].idle_timer
         /\ TimerUpdates(o) = 1
         /\ ~output[o].pending /\ ~output[o].activity

C16_Witness ==
  /\ hist[1].op = "finish_frame"
  /\ hist[1].asked_before
  /\ ~hist[1].term_before
  /\ output[1].idle_timer

(***************************************************************************)
(* C20: finish_frame clears pending_flip, then re-arms the timer           *)
(* (scheduled true, activity false) if and only if (background_visible or  *)
(* activity) and not terminating; otherwise it sets scheduled false, arms  *)
(* no timer and leaves the idle interval unchanged.                        *)
(***************************************************************************)
C20_RearmIffActivityOrBackground ==
  \A o \in Outputs :
    hist[o].op = "finish_frame" =>
      /\ ~output[o].pending
      /\ IF hist[o].rearm_due
         THEN /\ output[o].scheduled /\ ~output[o].activity
              /\ output[o].idle_timer
              /\ TimerUpdates(o) = 1
              /\ \E i \in DOMAIN output[o].calls :
                   output[o].calls[i] = <<"timer_update", output[o].ims \div ImsScale>>
         ELSE /\ ~output[o].scheduled
              /\ TimerUpdates(o) = 0
              /\ hist[o].ims_same

(* A finish_frame found activity on a terminating output and did not       *)
(* re-arm; it ran on an output whose interval had adapted before.          *)
C20_Witness ==
  /\ hist[1].op = "finish_frame"
  /\ ~hist[1].rearm_due
  /\ hist[1].term_before
  /\ output[1].activity
  /\ output[1].ims # ImsInit * ImsScale

C20_WitnessRearm ==
  /\ hist[1].op = "finish_frame"
  /\ hist[1].rearm_due
  /\ output[1].background_visible
  /\ \E i \in DOMAIN output[1].calls : output[1].calls[i] = <<"timer_update", ImsCeil>>

(* ---- skipped repaints: every reason for a skip, with a readback and   ---- *)
(* ---- frame callbacks waiting                                           ---- *)
NextSkip ==
  \/ ScheduleRepaint(1)
  \/ IdleTimer(1)
  \/ FinishFrame(1)
  \/ SetActive
  \/ \E surface \in {NULL, 1} : SetSurface(1, surface)
  \/ GetPixels(1, 1)
  \/ FrameRequest(1)

(* The compositor runs with options.enable_bg off: the background is never *)
(* drawn and the interval only decays.                                     *)
InitSkip == Init /\ ~enable_bg

SpecSkip == InitSkip /\ [][NextSkip]_vars

(***************************************************************************)
(* C21: a skipped repaint degrades silently.  It clears activity and       *)
(* scheduled, issues no swap and sends no done, and leaves pending_flip,   *)
(* the pending readback task and the views' staged frame callbacks as they *)
(* were; the schedule_repaint that follows it arms the timer again.        *)
(***************************************************************************)
C21_SkippedRepaintDegradesSilently ==
  \A o \in Outputs :
    /\ hist[o].op = "idle_timer" /\ hist[o].skipped =>
         /\ ~output[o].activity /\ ~output[o].scheduled
         /\ Swaps(o) = 0 /\ Dones(o) = {}
         /\ output[o].calls = << >>
         /\ output[o].pending = hist[o].was_pending
         /\ output[o].task_pixels = hist[o].task_before
         /\ hist[o].views_same
         /\ ~output[o].idle_timer
    /\ hist[o].op = "schedule_repaint" /\ hist[o].after_skip =>
         /\ hist[o].burst_arms = 1
         /\ output[o].idle_timer /\ output[o].scheduled /\ output[o].activity

(* A repaint was skipped while a flip was pending, with a readback and a   *)
(* frame callback waiting, and the next schedule_repaint armed the timer.  *)
C21_Witness ==
  /\ hist[1].op = "schedule_repaint"
  /\ hist[1].after_skip
  /\ output[1].pending
  /\ output[1].task_pixels # NULL
  /\ views[1].frame_cb_list # << >>
  /\ output[1].idle_timer

(* ---- the interval under a run of active frames ---- *)
NextDecay ==
  \/ ScheduleRepaint(1)
  \/ ActiveFrame(1)

SpecDecay == InitDecay /\ [][NextDecay]_vars

(***************************************************************************)
(* C22: from any idle interval in [1, 41] ms, after 100 successive         *)
(* finish_frame calls that each find activity (and no termination), the    *)
(* interval is at most 2 ms; it never grows on the way.                    *)
(***************************************************************************)
C22_DecayedAfterActiveFrames ==
  \A o \in Outputs :
    /\ output[o].ims <= decay[o].from
    /\ decay[o].n >= ActiveFrames => output[o].ims <= 2 * ImsScale

(* The run started from the ceiling. *)
C22_Witness ==
  /\ decay[1].from = ImsCeil * ImsScale
  /\ decay[1].n = ActiveFrames
  /\ output[1].ims <= 2 * ImsScale
  /\ hist[1].op = "finish_frame"

(***************************************************************************)
(* C23: when finish_frame only answers an outstanding swap, a pending flip *)
(* implies that scheduled is true and that the idle timer is not armed; so *)
(* the timer callback never runs while a flip is pending, and the          *)
(* schedule_repaint calls made during a pending flip set activity and arm  *)
(* no timer.                                                               *)
(***************************************************************************)
C23_PendingMeansScheduledAndUnarmed ==
  \A o \in Outputs :
    /\ output[o].pending => output[o].scheduled /\ ~output[o].idle_timer
    /\ hist[o].op = "idle_timer" => ~hist[o].was_pending
    /\ hist[o].op = "schedule_repaint" /\ output[o].pending =>
         /\ hist[o].was_pending
         /\ hist[o].burst_arms = 0
         /\ output[o].activity

(* Several schedule_repaint calls in a row were made while a flip was       *)
(* pending.                                                                 *)
C23_Witness ==
  /\ hist[1].op = "schedule_repaint"
  /\ hist[1].burst_n = MaxBurst
  /\ output[1].pending
  /\ hist[1].burst_arms = 0

(***************************************************************************)
(* The scheduler left to itself: the compositor stays active, the output   *)
(* keeps its context and renderer, wlc_render_bind succeeds and terminate  *)
(* is not called.  The event loop fires an armed timer (cb_idle_timer) and *)
(* the backend answers every swap with finish_frame.                       *)
(***************************************************************************)
NextLive ==
  \/ ScheduleRepaint(1)
  \/ BoundTimer(1)
  \/ PageFlip(1)

SpecLive ==
  /\ Init /\ [][NextLive]_vars
  /\ WF_vars(BoundTimer(1))
  /\ WF_vars(PageFlip(1))

Requested(o) == hist[o].op = "schedule_repaint"

SwapIssued(o) == hist[o].op = "idle_timer" /\ Swaps(o) = 1

(***************************************************************************)
(* C24: no lost wakeup.  With the compositor active, the context and       *)
(* renderer kept, bind succeeding, no terminate, armed timers firing and   *)
(* every swap answered by finish_frame, every schedule_repaint call, made  *)
(* with the scheduler idle, with the timer armed or with a flip pending,   *)
(* is eventually followed by a repaint that issues a swap.                 *)
(***************************************************************************)
C24_RequestLeadsToSwap ==
  /\ (Requested(1) /\ ~hist[1].burst_sched0) ~> SwapIssued(1)
  /\ (Requested(1) /\ hist[1].burst_sched0 /\ ~output[1].pending) ~> SwapIssued(1)
  /\ (Requested(1) /\ output[1].pending) ~> SwapIssued(1)

(* A repaint swapped, after an earlier frame that found activity, with a   *)
(* schedule_repaint call made since the last finish_frame still marked.    *)
C24_Witness ==
  /\ SwapIssued(1)
  /\ output[1].pending
  /\ output[1].activity
  /\ output[1].ims < ImsInit * ImsScale

(* ---- the EGL context: bring-up, extension lookup, teardown ---- *)
NextEgl ==
  \/ EglInit
  \/ EglTerminate
  \/ \E name \in ExtNames : HasExtension(name)

SpecEgl == Init /\ [][NextEgl]_vars

(* The tokens of a string: its maximal runs of characters other than the   *)
(* space.                                                                  *)
Tokens(str) ==
  LET n == Len(str)
      starts == {i \in 1..n : str[i] # " " /\ (i = 1 \/ str[i - 1] = " ")}
      ends == {j \in 1..n : str[j] # " " /\ (j = n \/ str[j + 1] = " ")}
      whole(i) == {k \in ends : k >= i /\ \A at \in i..k : str[at] # " "}
  IN UNION {{SubSeq(str, i, j) : j \in whole(i)} : i \in starts}

(***************************************************************************)
(* C12: has_extension matches whole space-separated tokens only: it        *)
(* returns true iff the name equals one of the tokens of the extension     *)
(* string.                                                                 *)
(***************************************************************************)
C12_WholeTokenMatch ==
  egl_calls = << "has_extension" >> /\ egl.extensions # << >> =>
    (lookup.found <=> lookup.name \in Tokens(egl.extensions[1]))

(* The releases among the calls of the last handler, in the order made. *)
IsRelease(call) == Releases(call) # {}
ReleasesMade == SelectSeq(egl_calls, IsRelease)

ReleaseOrder ==
  << "eglMakeCurrent_none", "eglDestroySurface", "eglDestroyContext",
     "eglTerminate", "dlclose", "backend_terminate" >>

RECURSIVE Position(_, _, _)
Position(seq, x, i) ==
  IF i > Len(seq) THEN 0 ELSE IF seq[i] = x THEN i ELSE Position(seq, x, i + 1)

InReleaseOrder(rel) ==
  \A i \in 1..Len(rel) : \A j \in 1..Len(rel) :
    i < j => Position(ReleaseOrder, rel[i], 1) < Position(ReleaseOrder, rel[j], 1)

(* What the steps before the failing one acquired. *)
AcquiredBefore(fail) ==
  UNION {Acquires(EglSteps[k].call) : k \in 1..(fail - 1)}

(***************************************************************************)
(* C13: teardown is safe on partial state and idempotent.  A wlc_egl_init  *)
(* that fails at any step returns false having released exactly what the   *)
(* earlier steps acquired, each once, in the order release-current,        *)
(* destroy surface, destroy context, terminate display, close library      *)
(* (then the backend); nothing is ever released that is not held, and a    *)
(* terminate() on the zeroed state releases nothing.                       *)
(***************************************************************************)
C13_TeardownReleasesAcquiredOnce ==
  /\ "twice" \notin egl_live
  /\ egl = EglZero => egl_live = {}
  /\ InReleaseOrder(ReleasesMade)
  /\ egl_fail \in 1..Len(EglSteps) =>
       /\ egl_calls[Len(egl_calls)] = "return_false"
       /\ egl = EglZero
       /\ UNION {Releases(ReleasesMade[i]) : i \in 1..Len(ReleasesMade)}
            = AcquiredBefore(egl_fail)
       /\ Len(ReleasesMade) = Cardinality(AcquiredBefore(egl_fail))

C13_Witness ==
  /\ egl_fail = Len(EglSteps)
  /\ ReleasesMade = << "eglDestroySurface", "eglDestroyContext", "eglTerminate",
                       "dlclose", "backend_terminate" >>
  /\ egl_live = {}

C13_WitnessFurtherTerminate ==
  /\ egl_calls = << "terminate" >>
  /\ egl = EglZero

(* ---- the modes of an output: construction and client bind ---- *)
NextModes == \E o \in Outputs : Bind(o)

SpecModes == InitModes /\ [][NextModes]_vars

(* The indices (from 0) of the modes of a list that carry a flag. *)
Flagged(info, flag) == {m \in 0..(Len(info) - 1) : flag \in info[m + 1].flags}
Lowest(set) == CHOOSE m \in set : \A other \in set : m <= other

(***************************************************************************)
(* C14: a bind elects the first mode marked current if there is one, else  *)
(* the first mode marked preferred; with neither the assertion fails.      *)
(***************************************************************************)
C14_FirstCurrentElsePreferred ==
  \A o \in Outputs :
    bound[o] # "never" =>
      LET info == information[o]
      IN IF Flagged(info, "current") # {}
         THEN bound[o] = "done" /\ mode[o] = Lowest(Flagged(info, "current"))
         ELSE IF Flagged(info, "preferred") # {}
         THEN bound[o] = "done" /\ mode[o] = Lowest(Flagged(info, "preferred"))
         ELSE bound[o] = "assert"

(***************************************************************************)
(* C15: a newly constructed output has the resolution of its current mode, *)
(* wherever that mode is in the list, also before any client has bound.    *)
(***************************************************************************)
C15_ResolutionOfCurrentMode ==
  \A o \in Outputs :
    Flagged(information[o], "current") # {} =>
      \E m \in Flagged(information[o], "current") :
        resolution[o] = [w |-> information[o][m + 1].width,
                         h |-> information[o][m + 1].height]

====
